---------------------------- MODULE Spec2Model ----------------------------
(***************************************************************************)
(* Model of the ITCPR cloud CLI git driver (src/itcpr/gitops.py, class     *)
(* GitOps) and of the `sync` command of src/itcpr/cli.py.                  *)
(*                                                                         *)
(* One working copy at GitOps.repo_path and its remote are the state.      *)
(* Every git sub-process is one step: subprocess.run either exits zero,    *)
(* exits non-zero (CalledProcessError), exceeds the 300 s timeout          *)
(* (TimeoutExpired) or is cut short by the user (KeyboardInterrupt).       *)
(* Python strings that the code inspects or builds are tuples of           *)
(* one-character strings, so that startswith/split/replace/strip/lower/in  *)
(* are computed as Python computes them.                                   *)
(***************************************************************************)
EXTENDS Integers, Sequences, FiniteSets, TLC

\* Bound of the model: the commits that exist, locally or on the remote, beyond
\* the history both sides started from.
MaxCommits == 2

\* Python's None where a str is expected: a tuple that is no text, since its
\* one element is not a character.
None == <<"None">>

---------------------------------------------------------------------------
\* Python str operations on tuples of characters.

\* s[i:i+len(p)] == p
MatchAt(s, p, i) ==
    /\ i >= 1
    /\ i + Len(p) - 1 <= Len(s)
    /\ \A k \in 1..Len(p) : s[i + k - 1] = p[k]

\* str.startswith
StartsWith(s, p) == MatchAt(s, p, 1)

\* str.find, 1-based, 0 when absent.
Find(s, p) ==
    LET hits == {i \in 1..(Len(s) + 1) : MatchAt(s, p, i)}
    IN  IF hits = {} THEN 0 ELSE CHOOSE i \in hits : \A j \in hits : i <= j

\* `p in s`
Contains(s, p) == Find(s, p) # 0

\* str.replace(old, new, count); count = -1 replaces every occurrence.
RECURSIVE Replace(_, _, _, _)
Replace(s, old, new, count) ==
    LET i == Find(s, old)
    IN  IF count = 0 \/ i = 0 \/ old = <<>> THEN s
        ELSE SubSeq(s, 1, i - 1) \o new
             \o Replace(SubSeq(s, i + Len(old), Len(s)), old, new, count - 1)

\* str.split(sep, 1)
Split1(s, sep) ==
    LET i == Find(s, sep)
    IN  IF i = 0 THEN <<s>>
        ELSE <<SubSeq(s, 1, i - 1), SubSeq(s, i + Len(sep), Len(s))>>

UpperChars == <<"A","B","C","D","E","F","G","H","I","J","K","L","M",
                "N","O","P","Q","R","S","T","U","V","W","X","Y","Z">>
LowerChars == <<"a","b","c","d","e","f","g","h","i","j","k","l","m",
                "n","o","p","q","r","s","t","u","v","w","x","y","z">>

\* str.lower
Lower(s) ==
    [i \in 1..Len(s) |->
        IF \E k \in 1..Len(UpperChars) : UpperChars[k] = s[i]
        THEN LowerChars[CHOOSE k \in 1..Len(UpperChars) : UpperChars[k] = s[i]]
        ELSE s[i]]

Whitespace == {" ", "\n", "\t"}

\* str.strip
Strip(s) ==
    LET keep == {i \in 1..Len(s) : s[i] \notin Whitespace}
    IN  IF keep = {} THEN <<>>
        ELSE SubSeq(s, CHOOSE i \in keep : \A j \in keep : i <= j,
                       CHOOSE i \in keep : \A j \in keep : i >= j)

DigitChars == <<"0","1","2","3","4","5","6","7","8","9">>

\* The decimal text git prints for a commit count.
RECURSIVE Decimal(_)
Decimal(n) ==
    IF n < 10 THEN <<DigitChars[n + 1]>>
    ELSE Decimal(n \div 10) \o <<DigitChars[(n % 10) + 1]>>

\* int(text) for a text of decimal digits.
RECURSIVE ParseInt(_)
ParseInt(s) ==
    IF Len(s) = 0 THEN 0
    ELSE 10 * ParseInt(SubSeq(s, 1, Len(s) - 1))
         + ((CHOOSE k \in 1..10 : DigitChars[k] = s[Len(s)]) - 1)

\* bool(x) of an Optional[str].
Truthy(x) == x # None /\ x # <<>>

\* Texts the code and git use.
HEAD == <<"H","E","A","D">>
BranchName == <<"m","a","i","n">>
OriginSlash == <<"o","r","i","g","i","n","/">>
AtUpstream == <<"@","{","u","p","s","t","r","e","a","m","}">>
DotDot == <<".",".">>
Newline == <<"\n">>

---------------------------------------------------------------------------
\* State.

VARIABLES
    repo,      \* the filesystem at repo_path, the working copy and its remote
    op,        \* the operation the caller invoked, "none" between invocations
    pc,        \* the statement the single thread of control is at
    stack,     \* the statements to resume at when the running function ends
    pending,   \* how the function that just ended did so: its value or exception
    gs,        \* get_status's local variables
    frame,     \* clone's arguments and local variables
    pass,      \* the sync command's pass over the registry
    start,     \* the repository as the current invocation found it
    log,       \* the git sub-processes run by the current driver operation
    result,    \* how the latest invocation ended
    prev,      \* how the invocation before it ended
    registry   \* the names of the repositories recorded in the registry storage

vars == <<repo, op, pc, stack, pending, gs, frame, pass, start, log, result, prev,
         registry>>

Commits == 1..MaxCommits

\* No invocation has ended / nothing is pending.
Nothing == [kind |-> "none"]

NoFrame == [remote_url |-> None, token |-> None]

NoPass == [authenticated |-> FALSE, status |-> [clean |-> FALSE], acted |-> FALSE,
           rebased |-> FALSE, outcomes |-> <<>>]

GsInit == [has_changes |-> FALSE, status_output |-> <<>>, current_branch |-> <<>>,
           remote_branch |-> None, behind |-> FALSE, ahead |-> FALSE]

\* The repositories an invocation can find at repo_path.
NoPath(parent) ==
    [parent |-> parent, exists |-> FALSE, git |-> FALSE, dirty |-> FALSE,
     detached |-> FALSE, upstream |-> FALSE, hasOrigin |-> FALSE,
     local |-> {}, origin |-> {}, remote |-> {}]

PlainDir == [NoPath(TRUE) EXCEPT !.exists = TRUE]

WorkingCopy(upstream, hasOrigin) ==
    [PlainDir EXCEPT !.git = TRUE, !.upstream = upstream, !.hasOrigin = hasOrigin]

Init ==
    /\ repo \in {NoPath(FALSE), NoPath(TRUE), PlainDir}
                \cup {WorkingCopy(u, o) : u \in BOOLEAN, o \in BOOLEAN}
    /\ op = "none"
    /\ pc = "idle"
    /\ stack = <<>>
    /\ pending = Nothing
    /\ gs = GsInit
    /\ frame = NoFrame
    /\ pass = NoPass
    /\ start = repo
    /\ log = <<>>
    /\ result = Nothing
    /\ prev = "None"
    /\ registry = {}

---------------------------------------------------------------------------
\* git, as the driver's sub-process.

Used == repo.local \cup repo.origin \cup repo.remote
NewCommit == CHOOSE c \in Commits \ Used : \A d \in Commits \ Used : c <= d

\* The remote-tracking names git resolves in this working copy.
RevExists(name) ==
    \/ name = HEAD
    \/ name \in {OriginSlash \o BranchName, OriginSlash \o HEAD} /\ repo.hasOrigin

RevCommits(name) == IF name = HEAD THEN repo.local ELSE repo.origin

\* A push that rewrites the remote branch.
ForceFlags == {"--force", "-f", "--force-with-lease", "+HEAD"}
IsForced(cmd) == \E i \in 1..Len(cmd) : cmd[i] \in ForceFlags

\* Whether `git <cmd> <dyn>` can exit with status zero here. cmd holds the
\* literal arguments, dyn the computed ones.
GitCanSucceed(cmd, dyn) ==
    CASE cmd[1] = "clone" -> repo.parent /\ ~repo.exists
      [] cmd[1] = "status" -> repo.git
      [] cmd[1] = "rev-parse" /\ cmd[2] = "--abbrev-ref" /\ dyn = <<>> -> repo.git
      [] cmd[1] = "rev-parse" /\ cmd[2] = "--abbrev-ref" /\ dyn # <<>> ->
            repo.git /\ repo.upstream /\ dyn[1] = BranchName \o AtUpstream
      [] cmd[1] = "rev-parse" /\ cmd[2] = "--verify" ->
            repo.git /\ RevExists(dyn[1])
      [] cmd[1] = "rev-list" ->
            /\ repo.git
            /\ Len(Split1(dyn[1], DotDot)) = 2
            /\ \A i \in 1..2 : RevExists(Split1(dyn[1], DotDot)[i])
      [] cmd[1] = "add" -> repo.git
      [] cmd[1] = "commit" -> repo.git /\ repo.dirty
      [] cmd[1] = "fetch" -> repo.git
      [] cmd[1] = "pull" -> repo.git /\ ~repo.dirty
      [] cmd[1] = "push" ->
            repo.git /\ ~repo.detached
            /\ (IsForced(cmd) \/ repo.remote \subseteq repo.local)
      [] OTHER -> FALSE

\* What the command prints on success.
GitStdout(cmd, dyn) ==
    CASE cmd[1] = "status" ->
            IF repo.dirty THEN <<" ","M"," ","f">> \o Newline ELSE <<>>
      [] cmd[1] = "rev-parse" /\ cmd[2] = "--abbrev-ref" /\ dyn = <<>> ->
            (IF repo.detached THEN HEAD ELSE BranchName) \o Newline
      [] cmd[1] = "rev-parse" /\ cmd[2] = "--abbrev-ref" /\ dyn # <<>> ->
            OriginSlash \o BranchName \o Newline
      [] cmd[1] = "rev-list" ->
            LET r == Split1(dyn[1], DotDot)
            IN  Decimal(Cardinality(RevCommits(r[2]) \ RevCommits(r[1]))) \o Newline
      [] OTHER -> <<>>

\* The repository after the command succeeded.
GitApply(cmd, dyn) ==
    CASE cmd[1] = "clone" ->
            [repo EXCEPT !.exists = TRUE, !.git = TRUE, !.dirty = FALSE,
                         !.detached = FALSE, !.upstream = TRUE, !.hasOrigin = TRUE,
                         !.local = repo.remote, !.origin = repo.remote]
      [] cmd[1] = "commit" ->
            [repo EXCEPT !.dirty = FALSE, !.local = repo.local \cup {NewCommit}]
      [] cmd[1] = "fetch" ->
            [repo EXCEPT !.hasOrigin = TRUE, !.origin = repo.remote]
      [] cmd[1] = "pull" ->
            [repo EXCEPT !.local = repo.local \cup repo.remote]
      [] cmd[1] = "push" ->
            [repo EXCEPT !.remote = repo.local, !.hasOrigin = TRUE,
                         !.origin = repo.local]
      [] OTHER -> repo

\* What git writes to stderr when it exits non-zero.
Fatal == <<"f","a","t","a","l">>
ConflictUpper == <<"C","O","N","F","L","I","C","T">>
ConflictLower == <<"c","o","n","f","l","i","c","t">>
GitStderr(cmd) ==
    IF cmd[1] = "pull" THEN {Fatal, ConflictUpper, ConflictLower} ELSE {Fatal}

\* The ways subprocess.run(cmd, check=True, timeout=300) can end.
Procs(cmd, dyn) ==
    {[kind |-> "ok", stdout |-> GitStdout(cmd, dyn), stderr |-> <<>>] :
        x \in IF GitCanSucceed(cmd, dyn) THEN {1} ELSE {}}
    \cup {[kind |-> "fail", stdout |-> <<>>, stderr |-> e] : e \in GitStderr(cmd)}
    \cup {[kind |-> k, stdout |-> <<>>, stderr |-> <<>>] : k \in {"timeout", "interrupt"}}

---------------------------------------------------------------------------
\* Exceptions and control.

RuntimeError(msg) == [cls |-> "RuntimeError", msg |-> msg]
KeyboardInterrupt == [cls |-> "KeyboardInterrupt", msg |-> <<"">>]

\* Mutant: `except Exception` catches nothing.
CatchesNothing(e) == FALSE

\* `except Exception` catches e; a bare `except:` catches everything.
IsException(e) == e.cls # "KeyboardInterrupt"

\* GitOps._run_git around subprocess.run's outcome p: the CompletedProcess, or
\* the exception that leaves _run_git.
run_git(p) ==
    CASE p.kind = "ok" -> [raised |-> FALSE, stdout |-> p.stdout]
      [] p.kind = "timeout" ->
            [raised |-> TRUE, exc |-> RuntimeError(<<"Git operation timed out">>)]
      [] p.kind = "fail" ->
            [raised |-> TRUE,
             exc |-> RuntimeError(<<"Git operation failed: ", p.stderr>>)]
      [] OTHER -> [raised |-> TRUE, exc |-> KeyboardInterrupt]

\* The sub-process ran: git's effect on the repository, and the record of it.
Exec(cmd, dyn, p) ==
    /\ repo' = IF p.kind = "ok" THEN GitApply(cmd, dyn) ELSE repo
    /\ log' = Append(log, [cmd |-> cmd, dyn |-> dyn, out |-> p.kind,
                            stderr |-> p.stderr])
    /\ UNCHANGED start

\* Mutant: every path passes for a repository.
AlwaysRepo == TRUE

\* GitOps.is_repo
is_repo == repo.exists /\ repo.git

\* Go on to statement l of the running function.
Goto(l) ==
    /\ pc' = l
    /\ UNCHANGED <<op, stack, pending, result, prev, registry>>

\* The running function ends, with a value or an exception: its caller resumes,
\* or the invocation is over.
Finish(how) ==
    IF stack = <<>>
    THEN /\ pc' = "idle"
         /\ op' = "none"
         /\ result' = [how EXCEPT !.op = op]
         /\ pending' = Nothing
         /\ UNCHANGED <<stack, prev>>
    ELSE /\ pc' = Head(stack)
         /\ stack' = Tail(stack)
         /\ pending' = how
         /\ UNCHANGED <<op, result, prev>>

Return(v) ==
    Finish([kind |-> "return", value |-> v, op |-> "none"]) /\ UNCHANGED registry
Raise(e) ==
    Finish([kind |-> "raise", exc |-> e, op |-> "none"]) /\ UNCHANGED registry

\* What is kept of the invocation that ended before this one: what it returned
\* ("True" or "False"), if it and this one are both commit_if_changes, and
\* "None" otherwise.
Earlier(r, name) ==
    IF name = "commit_if_changes" /\ r.kind = "return" /\ r.op = name
    THEN IF r.value THEN "True" ELSE "False"
    ELSE "None"

\* The caller invokes a driver operation on an idle driver.
Invoke(name, entry) ==
    /\ pc = "idle"
    /\ op' = name
    /\ pc' = entry
    /\ log' = <<>>
    /\ prev' = Earlier(result, name)
    /\ result' = Nothing
    /\ start' = repo
    /\ UNCHANGED <<repo, stack, pending, gs, registry>>

\* An operation other than clone is invoked.
InvokeNoArgs(name) == Invoke(name, name) /\ frame' = NoFrame /\ pass' = NoPass

\* The running function calls f and resumes at l when f ends.
Call(entry, l) ==
    /\ pc' = entry
    /\ stack' = <<l>> \o stack
    /\ UNCHANGED <<op, pending, result, prev, registry>>

---------------------------------------------------------------------------
\* GitOps.get_status

ErrorStatus(msg) == [clean |-> FALSE, error |-> msg]

Status(g) ==
    [clean |-> ~g.has_changes, has_changes |-> g.has_changes, behind |-> g.behind,
     ahead |-> g.ahead, status_output |-> g.status_output]

call_get_status == InvokeNoArgs("get_status")

\* if not self.is_repo(): return the error status
get_status ==
    /\ pc = "get_status"
    /\ gs' = GsInit
    /\ UNCHANGED <<repo, start, log, frame, pass>>
    /\ IF ~is_repo
       THEN Return(ErrorStatus(<<"Not a git repository">>))
       ELSE Goto("get_status_porcelain")

SetHasChanges(out) ==
    [gs EXCEPT !.has_changes = (Strip(out) # <<>>), !.status_output = out]
SetCurrentBranch(out) == [gs EXCEPT !.current_branch = Strip(out)]

SetRemoteBranch(out) == [gs EXCEPT !.remote_branch = Strip(out)]
Keep(out) == gs
SetBehind(out) == [gs EXCEPT !.behind = (ParseInt(Strip(out)) > 0)]
\* Mutant: ahead is taken from behind instead of from its own count.
AheadAsBehind(out) == [gs EXCEPT !.ahead = gs.behind]
SetAhead(out) == [gs EXCEPT !.ahead = (ParseInt(Strip(out)) > 0)]

\* The assignment a statement of get_status makes from its command's stdout.
Assign(target, out) ==
    CASE target = "has_changes" -> SetHasChanges(out)
      [] target = "current_branch" -> SetCurrentBranch(out)
      [] target = "remote_branch" -> SetRemoteBranch(out)
      [] target = "behind" -> SetBehind(out)
      [] target = "ahead" -> SetAhead(out)
      [] OTHER -> Keep(out)

\* A statement of get_status's outer try block that runs git: the exception of
\* a failed command is turned into the error status, an interrupt is not.
GsOuter(here, cmd, dyn, target, next) ==
    /\ pc = here
    /\ UNCHANGED <<frame, pass>>
    /\ \E p \in Procs(cmd, dyn) :
         LET r == run_git(p)
         IN  /\ Exec(cmd, dyn, p)
             /\ IF ~r.raised
                THEN gs' = Assign(target, r.stdout) /\ Goto(next)
                ELSE /\ gs' = GsInit
                     /\ IF IsException(r.exc)
                        THEN Return(ErrorStatus(r.exc.msg))
                        ELSE Raise(r.exc)

get_status_porcelain ==
    GsOuter("get_status_porcelain", <<"status", "--porcelain">>, <<>>,
            "has_changes", "get_status_branch")

get_status_branch ==
    GsOuter("get_status_branch", <<"rev-parse", "--abbrev-ref", "HEAD">>, <<>>,
            "current_branch", "get_status_upstream")

\* A statement inside one of get_status's inner try blocks, whose bare
\* `except:` takes over whatever the command raised.
GsInner(here, cmd, dyn, target, next, onExcept, after) ==
    /\ pc = here
    /\ UNCHANGED <<frame, pass>>
    /\ \E p \in Procs(cmd, dyn) :
         LET r == run_git(p)
         IN  /\ Exec(cmd, dyn, p)
             /\ IF ~r.raised
                THEN gs' = Assign(target, r.stdout) /\ Goto(next)
                ELSE gs' = onExcept /\ Goto(after)

get_status_upstream ==
    GsInner("get_status_upstream", <<"rev-parse", "--abbrev-ref">>,
            <<gs.current_branch \o AtUpstream>>,
            "remote_branch", "get_status_behind",
            [gs EXCEPT !.remote_branch = OriginSlash \o gs.current_branch],
            "get_status_behind")

\* behind = False; if remote_branch: ...
get_status_behind ==
    /\ pc = "get_status_behind"
    /\ gs' = [gs EXCEPT !.behind = FALSE]
    /\ UNCHANGED <<repo, start, log, frame, pass>>
    /\ IF Truthy(gs.remote_branch)
       THEN Goto("get_status_verify_behind")
       ELSE Goto("get_status_ahead")

get_status_verify_behind ==
    GsInner("get_status_verify_behind", <<"rev-parse", "--verify">>,
            <<gs.remote_branch>>, "none", "get_status_count_behind",
            [gs EXCEPT !.behind = FALSE], "get_status_ahead")

get_status_count_behind ==
    GsInner("get_status_count_behind", <<"rev-list", "--count">>,
            <<HEAD \o DotDot \o gs.remote_branch>>, "behind", "get_status_ahead",
            [gs EXCEPT !.behind = FALSE], "get_status_ahead")

\* ahead = False; if remote_branch: ...
get_status_ahead ==
    /\ pc = "get_status_ahead"
    /\ gs' = [gs EXCEPT !.ahead = FALSE]
    /\ UNCHANGED <<repo, start, log, frame, pass>>
    /\ IF Truthy(gs.remote_branch)
       THEN Goto("get_status_verify_ahead")
       ELSE Goto("get_status_return")

get_status_verify_ahead ==
    GsInner("get_status_verify_ahead", <<"rev-parse", "--verify">>,
            <<gs.remote_branch>>, "none", "get_status_count_ahead",
            [gs EXCEPT !.ahead = FALSE], "get_status_return")

get_status_count_ahead ==
    GsInner("get_status_count_ahead", <<"rev-list", "--count">>,
            <<gs.remote_branch \o DotDot \o HEAD>>, "ahead", "get_status_return",
            [gs EXCEPT !.ahead = FALSE], "get_status_return")

get_status_return ==
    /\ pc = "get_status_return"
    /\ Return(Status(gs))
    /\ gs' = GsInit
    /\ UNCHANGED <<repo, start, log, frame, pass>>

---------------------------------------------------------------------------
\* GitOps.get_current_branch

call_get_current_branch == InvokeNoArgs("get_current_branch")

get_current_branch ==
    /\ pc = "get_current_branch"
    /\ UNCHANGED <<gs, frame, pass>>
    /\ IF ~is_repo
       THEN Return(None) /\ UNCHANGED <<repo, start, log>>
       ELSE \E p \in Procs(<<"rev-parse", "--abbrev-ref", "HEAD">>, <<>>) :
              LET r == run_git(p)
              IN  /\ Exec(<<"rev-parse", "--abbrev-ref", "HEAD">>, <<>>, p)
                  /\ IF ~r.raised THEN Return(Strip(r.stdout)) ELSE Return(None)

---------------------------------------------------------------------------
\* `except Exception as e: logger.error(...); raise`
Reraise(e) == e

\* GitOps.pull_rebase's except clause.

\* `"CONFLICT" in e.stderr or "conflict" in e.stderr.lower()`
HasConflictMarker(stderr) ==
    Contains(stderr, ConflictUpper) \/ Contains(Lower(stderr), ConflictLower)

\* `except subprocess.CalledProcessError as e:`; any other exception passes
\* through it.
pull_rebase_except(e) ==
    IF e.cls = "CalledProcessError"
    THEN IF HasConflictMarker(e.stderr)
         THEN RuntimeError(<<"Merge conflict detected. Please resolve manually.">>)
         ELSE e
    ELSE e

\* The except clause of operation `here`, which ends by raising.
Except(here, e) ==
    IF here = "pull_rebase" THEN pull_rebase_except(e) ELSE Reraise(e)

\* A driver operation that runs one git command: not a repository raises
\* before git runs; the except clause decides what a failure raises.
RunOne(here, cmd) ==
    /\ pc = here
    /\ UNCHANGED <<gs, frame, pass>>
    /\ IF ~is_repo
       THEN Raise(RuntimeError(<<"Not a git repository">>)) /\ UNCHANGED <<repo, start, log>>
       ELSE \E p \in Procs(cmd, <<>>) :
              LET r == run_git(p)
              IN  /\ Exec(cmd, <<>>, p)
                  /\ IF ~r.raised THEN Return(TRUE) ELSE Raise(Except(here, r.exc))

\* GitOps.fetch
call_fetch == InvokeNoArgs("fetch")
fetch == RunOne("fetch", <<"fetch", "origin">>)

\* GitOps.pull_rebase
call_pull_rebase == InvokeNoArgs("pull_rebase")
pull_rebase ==
    RunOne("pull_rebase", <<"pull", "--rebase", "origin", "HEAD">>)

\* GitOps.push
\* Mutant: the push is forced.
PushForced == <<"push", "--force", "origin", "HEAD">>
PushCommand == <<"push", "origin", "HEAD">>
call_push == InvokeNoArgs("push")
push == RunOne("push", PushCommand)

---------------------------------------------------------------------------
\* GitOps.commit_if_changes

call_commit_if_changes == InvokeNoArgs("commit_if_changes")

\* status = self.get_status()
commit_if_changes ==
    /\ pc = "commit_if_changes"
    /\ Call("get_status", "commit_if_changes_check")
    /\ UNCHANGED <<repo, start, log, gs, frame, pass>>

\* Mutants: the test is dropped; the test is of `clean`.
NoChangesNever(status) == FALSE
NoChangesByClean(status) == status.clean

\* `not status.get("has_changes")`: get gives None for a missing key, and
\* `not None` is True.
NoChanges(status) ==
    IF "has_changes" \in DOMAIN status THEN ~status.has_changes ELSE TRUE

\* if not status.get("has_changes"): return False
commit_if_changes_check ==
    /\ pc = "commit_if_changes_check"
    /\ UNCHANGED <<repo, start, log, gs, frame, pass>>
    /\ IF pending.kind = "raise"
       THEN Raise(pending.exc)
       ELSE IF NoChanges(pending.value)
            THEN Return(FALSE)
            ELSE Goto("commit_if_changes_add")

commit_if_changes_add ==
    /\ pc = "commit_if_changes_add"
    /\ UNCHANGED <<gs, frame, pass>>
    /\ \E p \in Procs(<<"add", "-A">>, <<>>) :
         LET r == run_git(p)
         IN  /\ Exec(<<"add", "-A">>, <<>>, p)
             /\ IF ~r.raised THEN Goto("commit_if_changes_commit")
                ELSE Raise(Reraise(r.exc))

CommitCommand == <<"commit", "-m", "Auto-commit from itcpr">>

commit_if_changes_commit ==
    /\ pc = "commit_if_changes_commit"
    /\ UNCHANGED <<gs, frame, pass>>
    /\ \E p \in Procs(CommitCommand, <<>>) :
         LET r == run_git(p)
         IN  /\ Exec(CommitCommand, <<>>, p)
             /\ IF ~r.raised THEN Return(TRUE) ELSE Raise(Reraise(r.exc))

---------------------------------------------------------------------------
\* GitOps.clone

Scheme == <<":","/","/">>
HttpsPrefix == <<"h","t","t","p","s">> \o Scheme
GitAt == <<"g","i","t","@">>
AccessToken == <<"x","-","a","c","c","e","s","s","-","t","o","k","e","n",":">>

\* The remote URLs and tokens the caller passes.
RemoteUrls ==
    { HttpsPrefix \o <<"h","/","r">>,
      <<"h","t","t","p">> \o Scheme \o <<"h","/","r">>,
      GitAt \o <<"h",":","o","/","r">>,
      GitAt \o <<"h",":","o",":","r">>,
      GitAt \o <<"h",":">> \o GitAt \o <<"r">> }
Tokens == {None, <<>>, <<"T">>}

\* self.repo_path.name
RepoName == <<"r">>

\* `Prepare URL with token if provided`
TokenUrl(remote_url, token) ==
    IF Truthy(token)
    THEN IF StartsWith(remote_url, HttpsPrefix)
         THEN LET url_parts == Split1(remote_url, Scheme)
              IN  url_parts[1] \o Scheme \o AccessToken \o token \o <<"@">>
                  \o url_parts[2]
         ELSE IF StartsWith(remote_url, GitAt)
              THEN LET ssh_parts == Replace(Replace(remote_url, GitAt, <<>>, -1),
                                            <<":">>, <<"/">>, 1)
                   IN  HttpsPrefix \o AccessToken \o token \o <<"@">> \o ssh_parts
              ELSE remote_url
    ELSE remote_url

call_clone ==
    \E u \in RemoteUrls, t \in Tokens :
        /\ Invoke("clone", "clone")
        /\ frame' = [remote_url |-> u, token |-> t]
        /\ pass' = NoPass

\* Mutant: the existence check is dropped.
PathNeverExists == FALSE

\* self.repo_path.exists()
PathExists == repo.exists

\* The existence check, the URL, and parent_dir.mkdir(parents=True, exist_ok=True).
clone ==
    /\ pc = "clone"
    /\ UNCHANGED <<gs, start, log, pass>>
    /\ IF PathExists
       THEN /\ Raise(RuntimeError(<<"Path already exists: ", RepoName>>))
            /\ UNCHANGED <<repo, frame>>
       ELSE /\ frame' = [frame EXCEPT !.remote_url = TokenUrl(frame.remote_url, frame.token)]
            /\ repo' = [repo EXCEPT !.parent = TRUE]
            /\ Goto("clone_run")

\* self._run_git("clone", remote_url, repo_name, check=True, cwd=parent_dir) and
\* the check that the clone is there.
clone_run ==
    /\ pc = "clone_run"
    /\ UNCHANGED <<gs, frame, pass>>
    /\ \E p \in Procs(<<"clone">>, <<frame.remote_url, RepoName>>) :
         LET r == run_git(p)
         IN  /\ Exec(<<"clone">>, <<frame.remote_url, RepoName>>, p)
             /\ IF r.raised THEN Raise(Reraise(r.exc))
                ELSE IF ~repo'.exists
                     THEN Raise(RuntimeError(<<"Clone completed but repository not found at ", RepoName>>))
                     ELSE Return(TRUE)

---------------------------------------------------------------------------
\* The `clone` command of cli.py, for the repository at repo_path.

\* click.Abort
Abort == [cls |-> "Abort", msg |-> <<"">>]

\* The values `remote_url` can take: a URL of the API's answer, or nothing.
AssignedUrls == RemoteUrls \cup {None}

call_cli_clone ==
    \E a \in BOOLEAN :
        /\ Invoke("cli_clone", "cli_clone")
        /\ frame' = NoFrame
        /\ pass' = [NoPass EXCEPT !.authenticated = a]

\* From the login check to the question whether to clone again:
\* api.get_repos() raises, or the repository is not among its answer, or it
\* is there with its URL.
cli_clone ==
    /\ pc = "cli_clone"
    /\ UNCHANGED <<repo, start, log, gs, pass>>
    /\ IF ~pass.authenticated
       THEN Return(None) /\ UNCHANGED frame
       ELSE \/ Raise(Abort) /\ UNCHANGED frame
            \/ Return(None) /\ UNCHANGED frame
            \/ \E u \in AssignedUrls, confirm \in BOOLEAN :
                 IF ~Truthy(u) \/ (RepoName \in registry /\ ~confirm)
                 THEN Return(None) /\ UNCHANGED frame
                 ELSE /\ frame' = [frame EXCEPT !.remote_url = u]
                      /\ Goto("cli_clone_token")

\* token = api.get_github_token(repo_name); git = GitOps(local_path);
\* git.clone(remote_url, token). Either of the first two can raise.
cli_clone_token ==
    /\ pc = "cli_clone_token"
    /\ UNCHANGED <<repo, start, log, gs, pass>>
    /\ \/ Raise(Abort) /\ UNCHANGED frame
       \/ \E t \in Tokens :
            /\ frame' = [frame EXCEPT !.token = t]
            /\ Call("clone", "cli_clone_register")

\* Mutant: the record is added however git.clone ended.
CloneAnyhow(how) == TRUE

\* The statement after git.clone(...) is reached only when it returned.
CloneReturned(how) == how.kind = "return"

\* storage.add_repo(...) after the clone, which can itself raise, and the
\* except clause `except Exception: ...; raise click.Abort()`.
cli_clone_register ==
    /\ pc = "cli_clone_register"
    /\ UNCHANGED <<repo, start, log, gs, frame, pass>>
    /\ IF CloneReturned(pending)
       THEN \/ /\ registry' = registry \cup {RepoName}
               /\ Finish([kind |-> "return", value |-> None, op |-> "none"])
            \/ Raise(Abort)
       ELSE IF IsException(pending.exc) THEN Raise(Abort) ELSE Raise(pending.exc)

---------------------------------------------------------------------------
\* The `sync` command of cli.py, without --watch, over a registry that holds
\* this one repository with sync_mode = auto.

call_sync ==
    \E a \in BOOLEAN :
        /\ Invoke("sync", "sync")
        /\ frame' = NoFrame
        /\ pass' = [NoPass EXCEPT !.authenticated = a]

\* if not auth.is_authenticated(): return; ...; sync_manager.sync_all()
sync ==
    /\ pc = "sync"
    /\ UNCHANGED <<repo, start, log, gs, frame, pass>>
    /\ IF ~pass.authenticated
       THEN Return(None)
       ELSE Call("sync_all", "sync_except")

\* sync's except clauses around the pass.
sync_except ==
    /\ pc = "sync_except"
    /\ UNCHANGED <<repo, start, log, gs, frame, pass>>
    /\ IF pending.kind = "return" THEN Return(None)
       ELSE IF pending.exc.cls = "KeyboardInterrupt" THEN Return(None)
       ELSE Raise(Abort)

\* The exit status click gives the command: 1 for click.Abort, 0 for a return.
ExitStatus(r) == IF r.kind = "raise" THEN 1 ELSE 0

\* SyncManager.sync_all: the reconciliation of the repository, as the
\* design describes it. Each driver operation starts a fresh log.
CallDriver(entry, l) ==
    /\ Call(entry, l)
    /\ log' = <<>>
    /\ UNCHANGED <<repo, start, gs, frame>>

\* The repository's outcome is known and the pass returns its outcomes.
Outcome(o) ==
    /\ pass' = [pass EXCEPT !.outcomes = <<o>>]
    /\ Return(<<o>>)
    /\ UNCHANGED <<repo, start, log, gs, frame>>

\* An interrupt ends the pass; any other failure of the driver is the
\* repository's outcome.
DriverFailed(o) ==
    IF IsException(pending.exc)
    THEN Outcome(o)
    ELSE Raise(pending.exc) /\ UNCHANGED <<repo, start, log, gs, frame, pass>>

\* The pass starts on the repository, or fails before it reaches any
\* repository (the registry cannot be read, say).
sync_all ==
    /\ pc = "sync_all"
    /\ UNCHANGED pass
    /\ \/ CallDriver("get_status", "sync_all_status")
       \/ /\ Raise(RuntimeError(<<"registry unavailable">>))
          /\ UNCHANGED <<repo, start, log, gs, frame>>

\* Status at pass start: an error status is outcome error, local changes are
\* committed first.
sync_all_status ==
    /\ pc = "sync_all_status"
    /\ IF pending.kind = "raise" THEN DriverFailed("error")
       ELSE IF "error" \in DOMAIN pending.value THEN Outcome("error")
       ELSE IF ~pending.value.clean
            THEN /\ CallDriver("commit_if_changes", "sync_all_committed")
                 /\ pass' = [pass EXCEPT !.acted = TRUE]
            ELSE /\ Goto("sync_all_decide")
                 /\ pass' = [pass EXCEPT !.status = pending.value]
                 /\ UNCHANGED <<repo, start, log, gs, frame>>

\* After the commit step the status is derived again.
sync_all_committed ==
    /\ pc = "sync_all_committed"
    /\ IF pending.kind = "raise" THEN DriverFailed("error")
       ELSE CallDriver("get_status", "sync_all_restatus") /\ UNCHANGED pass

sync_all_restatus ==
    /\ pc = "sync_all_restatus"
    /\ IF pending.kind = "raise" THEN DriverFailed("error")
       ELSE IF "error" \in DOMAIN pending.value THEN Outcome("error")
       ELSE /\ Goto("sync_all_decide")
            /\ pass' = [pass EXCEPT !.status = pending.value]
            /\ UNCHANGED <<repo, start, log, gs, frame>>

\* Behind: rebase once. Still behind and ahead: conflict. Ahead: push.
sync_all_decide ==
    /\ pc = "sync_all_decide"
    /\ IF pass.status.behind /\ ~pass.rebased
       THEN /\ CallDriver("pull_rebase", "sync_all_rebased")
            /\ pass' = [pass EXCEPT !.acted = TRUE, !.rebased = TRUE]
       ELSE IF pass.status.behind THEN Outcome("conflict")
       ELSE IF pass.status.ahead
            THEN CallDriver("push", "sync_all_pushed") /\ UNCHANGED pass
       ELSE Outcome(IF pass.acted THEN "synced" ELSE "up_to_date")

IsMergeConflict(e) ==
    e.cls = "RuntimeError"
    /\ e.msg[1] = "Merge conflict detected. Please resolve manually."

sync_all_rebased ==
    /\ pc = "sync_all_rebased"
    /\ IF pending.kind = "raise"
       THEN DriverFailed(IF IsMergeConflict(pending.exc) THEN "conflict" ELSE "error")
       ELSE CallDriver("get_status", "sync_all_restatus") /\ UNCHANGED pass

sync_all_pushed ==
    /\ pc = "sync_all_pushed"
    /\ IF pending.kind = "raise" THEN DriverFailed("error")
       ELSE Outcome("synced")

---------------------------------------------------------------------------
\* The world between invocations: the user edits files, someone else pushes
\* to the remote, the user checks out a commit or the branch again. What is
\* remembered of earlier invocations is no longer about this state.

Forget ==
    /\ pc = "idle"
    /\ result' = Nothing
    /\ prev' = "None"
    /\ log' = <<>>
    /\ frame' = NoFrame
    /\ pass' = NoPass
    /\ start' = repo'
    /\ UNCHANGED <<op, pc, stack, pending, gs, registry>>

EditFiles ==
    /\ pc = "idle"
    /\ repo.git /\ ~repo.dirty
    /\ Cardinality(Used) < MaxCommits
    /\ repo' = [repo EXCEPT !.dirty = TRUE]
    /\ Forget

RemoteAdvance ==
    /\ pc = "idle"
    /\ repo.git
    /\ Cardinality(Used) + (IF repo.dirty THEN 1 ELSE 0) < MaxCommits
    /\ repo' = [repo EXCEPT !.remote = repo.remote \cup {NewCommit}]
    /\ Forget

Checkout ==
    /\ pc = "idle"
    /\ repo.git
    /\ repo' = [repo EXCEPT !.detached = ~repo.detached]
    /\ Forget

Next ==
    \/ call_get_status
    \/ get_status
    \/ get_status_porcelain
    \/ get_status_branch
    \/ get_status_upstream
    \/ get_status_behind
    \/ get_status_verify_behind
    \/ get_status_count_behind
    \/ get_status_ahead
    \/ get_status_verify_ahead
    \/ get_status_count_ahead
    \/ get_status_return
    \/ call_get_current_branch
    \/ get_current_branch
    \/ call_fetch
    \/ fetch
    \/ call_pull_rebase
    \/ pull_rebase
    \/ call_push
    \/ push
    \/ call_commit_if_changes
    \/ commit_if_changes
    \/ commit_if_changes_check
    \/ commit_if_changes_add
    \/ commit_if_changes_commit
    \/ call_clone
    \/ clone
    \/ clone_run
    \/ call_cli_clone
    \/ cli_clone
    \/ cli_clone_token
    \/ cli_clone_register
    \/ call_sync
    \/ sync
    \/ sync_except
    \/ sync_all
    \/ sync_all_status
    \/ sync_all_committed
    \/ sync_all_restatus
    \/ sync_all_decide
    \/ sync_all_rebased
    \/ sync_all_pushed
    \/ EditFiles
    \/ RemoteAdvance
    \/ Checkout

Spec == Init /\ [][Next]_vars

---------------------------------------------------------------------------
\* Properties.

\* The latest invocation was of operation name and has ended.
Done(name) == pc = "idle" /\ result.kind # "none" /\ result.op = name
Returned(name) == Done(name) /\ result.kind = "return"
Raised(name) == Done(name) /\ result.kind = "raise"

\* The failure kinds of the design's taxonomy, as a caller can tell them
\* from the exception it catches.
FailureKind(e) ==
    IF e.cls # "RuntimeError" THEN e.cls
    ELSE CASE e.msg[1] = "Not a git repository" -> "NotARepository"
           [] e.msg[1] = "Path already exists: " -> "AlreadyExists"
           [] e.msg[1] = "Merge conflict detected. Please resolve manually." ->
                "MergeConflict"
           [] e.msg[1] = "Git operation timed out" -> "Timeout"
           [] e.msg[1] = "Git operation failed: " -> "CommandFailed"
           [] OTHER -> "Other"

Ran(l, verb) == \E i \in 1..Len(l) : l[i].cmd[1] = verb
Count(l, verb) == Cardinality({i \in 1..Len(l) : l[i].cmd[1] = verb})

\* C1: whenever `git pull --rebase` fails and its output holds a conflict
\* marker, pull_rebase fails with MergeConflict; when it fails without one,
\* pull_rebase fails with CommandFailed and not with MergeConflict.
C1_ConflictReported ==
    (Done("pull_rebase") /\ Len(log) = 1 /\ log[1].out = "fail") =>
        /\ result.kind = "raise"
        /\ FailureKind(result.exc) =
             IF Contains(log[1].stderr, ConflictUpper)
                \/ Contains(log[1].stderr, ConflictLower)
             THEN "MergeConflict" ELSE "CommandFailed"

\* C2: clone on a path that exists fails with AlreadyExists, whatever the URL
\* and token, having run no git command and changed nothing on disk.
C2_CloneExisting ==
    (Done("clone") /\ start.exists) =>
        /\ result.kind = "raise"
        /\ FailureKind(result.exc) = "AlreadyExists"
        /\ log = <<>>
        /\ repo = start

C2_Witness ==
    /\ Raised("clone") /\ start.exists /\ start.git /\ start.dirty
    /\ frame.token = <<"T">>
    /\ repo = start

\* C3: the URL clone prepares for `git clone` is the given URL without a
\* token; with token T it is https://x-access-token:T@REST for https://REST
\* and https://x-access-token:T@HOST/PATH for git@HOST:PATH.
SshHost(u) == Split1(SubSeq(u, Len(GitAt) + 1, Len(u)), <<":">>)[1]
SshPath(u) == Split1(SubSeq(u, Len(GitAt) + 1, Len(u)), <<":">>)[2]
C3_TokenUrl ==
    [][(pc = "clone" /\ pc' = "clone_run") =>
         LET u == frame.remote_url
             t == frame.token
             passed == frame'.remote_url
         IN  /\ t = None => passed = u
             /\ (t # None /\ t # <<>> /\ StartsWith(u, HttpsPrefix)) =>
                   passed = HttpsPrefix \o AccessToken \o t \o <<"@">>
                            \o SubSeq(u, Len(HttpsPrefix) + 1, Len(u))
             /\ (t # None /\ t # <<>> /\ StartsWith(u, GitAt)) =>
                   passed = HttpsPrefix \o AccessToken \o t \o <<"@">>
                            \o SshHost(u) \o <<"/">> \o SshPath(u)]_vars

\* The git commands whose failure makes commit_if_changes give up.
Needed == {<<"status", "--porcelain">>, <<"rev-parse", "--abbrev-ref", "HEAD">>,
           <<"add", "-A">>, CommitCommand}
NeededOk(l) == \A i \in 1..Len(l) : l[i].cmd \in Needed => l[i].out = "ok"

C5_ExitStatus ==
    (Done("sync")
     /\ \E i \in 1..Len(pass.outcomes) : pass.outcomes[i] \in {"error", "conflict"})
        => ExitStatus(result) # 0

\* C6: get_status does not raise when git commands fail or time out, and when
\* the path is no repository or the dirtiness or branch query fails it returns
\* exactly {clean: False, error: ...}.
Failed(i) == Len(log) >= i /\ log[i].out \in {"fail", "timeout"}
C6_GetStatusNeverRaises ==
    (Done("get_status") /\ \A i \in 1..Len(log) : log[i].out # "interrupt") =>
        /\ result.kind = "return"
        /\ (~start.git \/ Failed(1) \/ Failed(2)) =>
              /\ DOMAIN result.value = {"clean", "error"}
              /\ result.value.clean = FALSE

C6_Witness ==
    /\ Returned("get_status")
    /\ Len(log) = 2 /\ log[1].out = "ok" /\ log[2].out = "timeout"
    /\ DOMAIN result.value = {"clean", "error"}
    /\ result.value.error[1] = "Git operation timed out"

\* commit_if_changes ends at once with False, having run nothing more.
EndsWithFalse ==
    /\ log' = log /\ repo' = repo
    /\ IF stack = <<>>
       THEN pc' = "idle" /\ result'.kind = "return" /\ result'.value = FALSE
       ELSE pc' = Head(stack) /\ pending'.kind = "return" /\ pending'.value = FALSE

\* C7 as stated: commit_if_changes goes on to stage and commit exactly when the
\* status get_status returned has clean = false, the error status included.
C7_FollowsClean ==
    [][(pc = "commit_if_changes_check" /\ pending.kind = "return") =>
         IF pending.value.clean THEN EndsWithFalse
         ELSE pc' = "commit_if_changes_add"]_vars

\* C7 amended: it goes on to stage and commit exactly when the status has
\* has_changes = true; with clean = true and with the error status it returns
\* false and runs nothing.
C7_FollowsHasChanges ==
    [][(pc = "commit_if_changes_check" /\ pending.kind = "return") =>
         IF "error" \in DOMAIN pending.value \/ pending.value.clean
         THEN EndsWithFalse
         ELSE pc' = "commit_if_changes_add" /\ pending.value.has_changes]_vars

C7_Witness ==
    /\ Returned("commit_if_changes") /\ result.value = FALSE
    /\ start.dirty
    /\ Len(log) = 1 /\ log[1].out = "fail"

\* C8: in a sync without --watch, no git command is started after one that an
\* interrupt cut short.
InSync == op = "sync" \/ Done("sync")
C8_InterruptEnds ==
    InSync => \A i \in 1..Len(log) : log[i].out = "interrupt" => i = Len(log)

\* C9: with HEAD detached, get_current_branch returns None, and get_status
\* compares HEAD with no remote reference named after HEAD.
C9_DetachedIsAbsent ==
    /\ (Returned("get_current_branch") /\ start.git /\ start.detached
        /\ log[1].out = "ok") => result.value = None
    /\ (start.git /\ start.detached) =>
          \A i \in 1..Len(log) :
              log[i].cmd[1] = "rev-list" => ~Contains(log[i].dyn[1], OriginSlash \o HEAD)

\* C10: every push is the plain `git push origin HEAD`, no command is forced,
\* and no step removes a commit from the remote, diverged or not.
Diverged(r) == r.local \ r.remote # {} /\ r.remote \ r.local # {}
C10_NoForcePush ==
    [][/\ repo.remote \subseteq repo'.remote
       /\ \A i \in 1..Len(log') :
            /\ ~IsForced(log'[i].cmd)
            /\ log'[i].cmd[1] = "push" => log'[i].cmd = <<"push", "origin", "HEAD">>]_vars

C10_Witness ==
    /\ Raised("push") /\ Diverged(start) /\ Diverged(repo)
    /\ Len(log) = 1 /\ log[1].cmd[1] = "push" /\ log[1].out = "fail"
    /\ repo.remote = start.remote


\* The operations that run one git command on the working copy.
SingleCommandOps == {"fetch", "pull_rebase", "push"}

\* The path was a repository when the invocation began.
WasRepo == start.exists /\ start.git

RemoteRefExists == repo.hasOrigin

\* The status has the fields of a computed status, not those of the error
\* status.
Computed(status) == {"ahead", "behind", "error"} \cap DOMAIN status = {"ahead", "behind"}

\* get_status ran a commit-range count `git rev-list --count A..B` with HEAD
\* on side `side` of the range (1 for HEAD..remote, 2 for remote..HEAD), and
\* the command exited with status zero.
Counted(side) ==
    \E i \in 1..Len(log) :
        /\ log[i].cmd[1] = "rev-list"
        /\ Split1(log[i].dyn[1], DotDot)[side] = HEAD
        /\ log[i].out = "ok"

\* The commits of the remote reference that HEAD lacks, and those of HEAD that
\* the remote reference lacks.
RemoteOnly == repo.origin \ repo.local
LocalOnly == repo.local \ repo.origin

C13_RegisterAfterClone ==
    [][/\ registry' # registry =>
            /\ op = "cli_clone" /\ pc = "cli_clone_register"
            /\ pending.kind = "return" /\ pending.value = TRUE
            /\ log # <<>> /\ log[Len(log)].cmd[1] = "clone" /\ log[Len(log)].out = "ok"
            /\ repo.exists /\ ~start.exists
            /\ registry' = registry \cup {RepoName}
       /\ (op = "cli_clone" /\ pc = "cli_clone_token" /\ pc' = "idle") =>
            /\ registry' = registry
            /\ ExitStatus(result') # 0
       /\ (op = "cli_clone" /\ pc = "cli_clone_register" /\ pending.kind = "raise") =>
            /\ pc' = "idle"
            /\ registry' = registry
            /\ ExitStatus(result') # 0]_vars

\* The `clone` command has aborted on a path that already exists, with
\* nothing recorded in the registry.
C13_Witness ==
    /\ Raised("cli_clone")
    /\ ExitStatus(result) # 0
    /\ Truthy(frame.remote_url) /\ frame.token = <<"T">>
    /\ start.exists /\ repo = start
    /\ log = <<>>
    /\ registry = {}

============================================================================
